---- MODULE Spec2Model ----
(***************************************************************************)
(* The three envelope adapters of server/Engine: text.py, image.py and     *)
(* voice.py.  Each script is one process invocation: it reads the          *)
(* credential from the environment, takes its input from argv or stdin,    *)
(* makes its outbound call(s), prints JSON envelopes to standard output    *)
(* and exits.  The model runs one invocation of one script; the            *)
(* environment (credential, argv, stdin, every outcome of every outbound   *)
(* call) is chosen nondeterministically from bounded sets.                 *)
(*                                                                         *)
(* Text is modelled as a sequence of one-character strings, bytes as a     *)
(* sequence of integers in 0..255, so that truncation, concatenation,      *)
(* base64 and decimal formatting are computed, not assumed.                *)
(***************************************************************************)
EXTENDS Integers, Sequences, FiniteSets, TLC

\* ------------------------------------------------------------------ bounds

\* Longest body (in bytes) an upstream call returns.
MaxBodyLen == 4

\* Longest argv[1:] the script is started with.
MaxArgs == 2

\* Length of the longest generated exception message.
MaxErrLen == 101

\* ------------------------------------------------------- program constants

\* voice.py:64  str(hf_error)[:100]
NoteErrLimit == 100

\* voice.py:72  str(hf_error)[:50], str(gtts_error)[:50]
FailErrLimit == 50

\* image.py:32  response.status_code == 200
StatusOk == 200

\* image.py:50  response.status_code == 503
StatusLoading == 503

\* ------------------------------------------------------------ text helpers

\* s[:n]
Take(s, n) == SubSeq(s, 1, IF Len(s) < n THEN Len(s) ELSE n)

\* p occurs in s
Contains(s, p) ==
    \E i \in 0..(Len(s) - Len(p)) : SubSeq(s, i + 1, i + Len(p)) = p

Digits == <<"0","1","2","3","4","5","6","7","8","9">>

\* str(n) of a non-negative int, as an f-string formats it
RECURSIVE DecStr(_)
DecStr(n) ==
    IF n < 10 THEN <<Digits[n + 1]>>
    ELSE DecStr(n \div 10) \o <<Digits[(n % 10) + 1]>>

\* " ".join(words)
RECURSIVE Join(_)
Join(words) ==
    IF Len(words) = 0 THEN <<>>
    ELSE IF Len(words) = 1 THEN words[1]
    ELSE words[1] \o <<" ">> \o Join(Tail(words))

\* A message of n characters (the digits 1,2,...,9,0,1,...), standing for an
\* exception text of that length.
LongErr(n) == [i \in 1..n |-> Digits[(i % 10) + 1]]

\* ---------------------------------------------------------------- literals

\* text.py:15  "HUGGINGFACE_API_KEY environment variable not found"
TextKeyMissingMsg ==
    <<"H","U","G","G","I","N","G","F","A","C","E","_","A","P","I","_","K","E","Y"," ","e",
      "n","v","i","r","o","n","m","e","n","t"," ","v","a","r","i","a","b","l","e"," ","n",
      "o","t"," ","f","o","u","n","d">>

\* text.py:33  f"Request failed: {str(e)}"
RequestFailedPrefix ==
    <<"R","e","q","u","e","s","t"," ","f","a","i","l","e","d",":"," ">>

\* text.py:40  f"Unexpected error: {str(e)}"
UnexpectedErrorPrefix ==
    <<"U","n","e","x","p","e","c","t","e","d"," ","e","r","r","o","r",":"," ">>

\* text.py:52-54  the instruction text that precedes {user_input}
prompt_template_head ==
    <<"Y","o","u"," ","a","r","e"," ","a"," ","t","e","x","t"," ","g","e","n","e","r","a",
      "t","o","r"," ","a","g","e","n","t",","," ","P","l","e","a","s","e"," ","p","r","o",
      "v","i","d","e"," ","a"," ","c","l","e","a","r",","," ","w","e","l","l","-","s","t",
      "r","u","c","t","u","r","e","d"," ","p","a","r","a","g","r","a","p","h"," ","r","e",
      "s","p","o","n","s","e"," ","t","o"," ","t","h","e"," ","f","o","l","l","o","w","i",
      "n","g"," ","q","u","e","s","t","i","o","n","."," ","F","o","c","u","s"," ","o","n",
      " ","g","i","v","i","n","g"," ","a"," ","c","o","m","p","r","e","h","e","n","s","i",
      "v","e"," ","a","n","s","w","e","r"," ","i","n"," ","f","l","o","w","i","n","g"," ",
      "p","a","r","a","g","r","a","p","h"," ","f","o","r","m","a","t"," ","w","i","t","h",
      "o","u","t"," ","b","u","l","l","e","t"," ","p","o","i","n","t","s"," ","o","r"," ",
      "l","i","s","t","s",":","\n","\n">>

\* text.py:83  f"Error extracting response: {e}"
ExtractErrorPrefix ==
    <<"E","r","r","o","r"," ","e","x","t","r","a","c","t","i","n","g"," ","r","e","s","p",
      "o","n","s","e",":"," ">>

\* text.py:91  f"Script execution error: {str(e)}"
ScriptErrorPrefix ==
    <<"S","c","r","i","p","t"," ","e","x","e","c","u","t","i","o","n"," ","e","r","r","o",
      "r",":"," ">>

\* image.py:16
ImageKeyMissingMsg ==
    <<"H","U","G","G","I","N","G","F","A","C","E","_","A","P","I","_","K","E","Y"," ","n",
      "o","t"," ","f","o","u","n","d"," ","i","n"," ","e","n","v","i","r","o","n","m","e",
      "n","t"," ","v","a","r","i","a","b","l","e","s">>

\* image.py:39
DataUriPng ==
    <<"d","a","t","a",":","i","m","a","g","e","/","p","n","g",";","b","a","s","e","6","4",
      ",">>

\* image.py:53
ModelLoadingMsg ==
    <<"M","o","d","e","l"," ","i","s"," ","l","o","a","d","i","n","g",","," ","p","l","e",
      "a","s","e"," ","t","r","y"," ","a","g","a","i","n"," ","i","n"," ","a"," ","f","e",
      "w"," ","m","i","n","u","t","e","s">>

\* image.py:59  f"API Error {response.status_code}: {response.text}"
ApiErrorPrefix ==
    <<"A","P","I"," ","E","r","r","o","r"," ">>

\* image.py:59
ColonSpace ==
    <<":"," ">>

\* voice.py:35
DataUriWav ==
    <<"d","a","t","a",":","a","u","d","i","o","/","w","a","v",";","b","a","s","e","6","4",
      ",">>

\* voice.py:37
KokoroNote ==
    <<"A","u","d","i","o"," ","g","e","n","e","r","a","t","e","d"," ","u","s","i","n","g",
      " ","K","o","k","o","r","o","-","8","2","M"," ","T","T","S"," ","m","o","d","e","l">>

\* voice.py:41  raise Exception("HUGGINGFACE_API_KEY not found")
VoiceKeyMissingMsg ==
    <<"H","U","G","G","I","N","G","F","A","C","E","_","A","P","I","_","K","E","Y"," ","n",
      "o","t"," ","f","o","u","n","d">>

\* voice.py:62
DataUriMpeg ==
    <<"d","a","t","a",":","a","u","d","i","o","/","m","p","e","g",";","b","a","s","e","6",
      "4",",">>

\* voice.py:64
GoogleNoteHead ==
    <<"A","u","d","i","o"," ","g","e","n","e","r","a","t","e","d"," ","u","s","i","n","g",
      " ","G","o","o","g","l","e"," ","T","T","S"," ","(","H","F"," ","f","a","l","l","b",
      "a","c","k",":"," ">>

\* voice.py:64
CloseParen ==
    <<")">>

\* voice.py:72
BothFailedHead ==
    <<"B","o","t","h"," ","H","F"," ","a","n","d"," ","g","T","T","S"," ","f","a","i","l",
      "e","d","."," ","H","F",":"," ">>

\* voice.py:72
BothFailedMid ==
    <<","," ","g","T","T","S",":"," ">>

\* voice.py:18  str(ImportError) when huggingface_hub is not installed
NoHfHubMsg ==
    <<"N","o"," ","m","o","d","u","l","e"," ","n","a","m","e","d"," ","'","h","u","g","g",
      "i","n","g","f","a","c","e","_","h","u","b","'">>

\* voice.py:46  str(ImportError) when gtts is not installed
NoGttsMsg ==
    <<"N","o"," ","m","o","d","u","l","e"," ","n","a","m","e","d"," ","'","g","t","t","s",
      "'">>

\* text.py:70  str(IndexError) of [][0]
ListIndexMsg ==
    <<"l","i","s","t"," ","i","n","d","e","x"," ","o","u","t"," ","o","f"," ","r","a","n",
      "g","e">>

\* text.py:70  str(IndexError) of ""[0]
StrIndexMsg ==
    <<"s","t","r","i","n","g"," ","i","n","d","e","x"," ","o","u","t"," ","o","f"," ","r",
      "a","n","g","e">>

\* text.py:70  str(TypeError) of a list subscripted by a key
ListIndicesMsg ==
    <<"l","i","s","t"," ","i","n","d","i","c","e","s"," ","m","u","s","t"," ","b","e"," ",
      "i","n","t","e","g","e","r","s"," ","o","r"," ","s","l","i","c","e","s",","," ","n",
      "o","t"," ","s","t","r">>

\* text.py:70  str(TypeError) of a string subscripted by a key
StrIndicesMsg ==
    <<"s","t","r","i","n","g"," ","i","n","d","i","c","e","s"," ","m","u","s","t"," ","b",
      "e"," ","i","n","t","e","g","e","r","s",","," ","n","o","t"," ","'","s","t","r","'">>

\* text.py:70  str(TypeError) of None, a number or a boolean subscripted
NotSubscriptableMsg ==
    <<"o","b","j","e","c","t"," ","i","s"," ","n","o","t"," ","s","u","b","s","c","r","i",
      "p","t","a","b","l","e">>

\* a transport error message of requests.post
ConnErrMsg ==
    <<"C","o","n","n","e","c","t","i","o","n"," ","r","e","f","u","s","e","d">>

\* a transport error message of requests.post
TimeoutMsg ==
    <<"R","e","a","d"," ","t","i","m","e","d"," ","o","u","t",".">>

\* text.py:28  raise_for_status: "<status> Client Error: ..." for 4xx
ClientErrorMsg ==
    <<" ","C","l","i","e","n","t"," ","E","r","r","o","r">>

\* text.py:28  raise_for_status: "<status> Server Error: ..." for 5xx
ServerErrorMsg ==
    <<" ","S","e","r","v","e","r"," ","E","r","r","o","r">>

\* text.py:29  str of the decode error of response.json()
JsonDecodeMsg ==
    <<"E","x","p","e","c","t","i","n","g"," ","v","a","l","u","e",":"," ","l","i","n","e",
      " ","1"," ","c","o","l","u","m","n"," ","1"," ","(","c","h","a","r"," ","0",")">>

\* voice.py:25  an upstream error that mentions the model
KokoroUnavailableMsg ==
    <<"M","o","d","e","l"," ","h","e","x","g","r","a","d","/","K","o","k","o","r","o","-",
      "8","2","M"," ","i","s"," ","c","u","r","r","e","n","t","l","y"," ","l","o","a","d",
      "i","n","g">>

\* voice.py:25 / voice.py:54  an upstream error
RateLimitMsg ==
    <<"4","2","9"," ","T","o","o"," ","M","a","n","y"," ","R","e","q","u","e","s","t","s">>

\* the fallback indicator looked for in a note
GoogleTTS ==
    <<"G","o","o","g","l","e"," ","T","T","S">>

\* the primary model name looked for in a note
Kokoro82M ==
    <<"K","o","k","o","r","o","-","8","2","M">>

\* ------------------------------------------------------------------ base64

B64Alphabet ==
    <<"A","B","C","D","E","F","G","H","I","J","K","L","M","N","O","P","Q","R","S","T","U",
      "V","W","X","Y","Z","a","b","c","d","e","f","g","h","i","j","k","l","m","n","o","p",
      "q","r","s","t","u","v","w","x","y","z","0","1","2","3","4","5","6","7","8","9","+",
      "/">>

B64Char(n) == B64Alphabet[n + 1]

\* base64.b64encode(data).decode('utf-8'): three bytes make four characters,
\* a last group of one or two bytes is padded with "=".
RECURSIVE b64encode(_)
b64encode(b) ==
    IF Len(b) = 0 THEN <<>>
    ELSE IF Len(b) = 1 THEN
        <<B64Char(b[1] \div 4), B64Char((b[1] % 4) * 16), "=", "=">>
    ELSE IF Len(b) = 2 THEN
        <<B64Char(b[1] \div 4), B64Char((b[1] % 4) * 16 + (b[2] \div 16)),
          B64Char((b[2] % 16) * 4), "=">>
    ELSE
        <<B64Char(b[1] \div 4), B64Char((b[1] % 4) * 16 + (b[2] \div 16)),
          B64Char((b[2] % 16) * 4 + (b[3] \div 64)), B64Char(b[3] % 64)>>
        \o b64encode(SubSeq(b, 4, Len(b)))

\* ------------------------------------------------------------- JSON values

\* A JSON value as Python holds it after response.json(): t is its Python
\* type ("dict", "list", "str", "int", "NoneType"), v its content (a function
\* from keys for a dict, a sequence for a list, the characters for a str).
J(t, v) == [t |-> t, v |-> v]

JNone == J("NoneType", <<>>)
JStr(s) == J("str", s)
JList(s) == J("list", s)
JDict(f) == J("dict", f)
JInt(n) == J("int", n)

\* The outcome of evaluating an expression: a value, or a raised exception
\* with its class and its str().
Value(v) == [exc |-> "none", v |-> v, msg |-> <<>>]
Raised(cls, msg) == [exc |-> cls, v |-> JNone, msg |-> msg]

\* repr of the keys the script subscripts with, as str(KeyError(key)) prints
KeyRepr(key) ==
    CASE key = "choices" -> <<"'","c","h","o","i","c","e","s","'">>
      [] key = "message" -> <<"'","m","e","s","s","a","g","e","'">>
      [] key = "content" -> <<"'","c","o","n","t","e","n","t","'">>

TypeName(t) ==
    CASE t = "NoneType" -> <<"'","N","o","n","e","T","y","p","e","'"," ">>
      [] t = "int" -> <<"'","i","n","t","'"," ">>

\* obj[key] for a string key, with Python's exceptions
GetKey(obj, key) ==
    CASE obj.t = "dict" ->
            IF key \in DOMAIN obj.v THEN Value(obj.v[key])
            ELSE Raised("KeyError", KeyRepr(key))
      [] obj.t = "list" -> Raised("TypeError", ListIndicesMsg)
      [] obj.t = "str" -> Raised("TypeError", StrIndicesMsg)
      [] OTHER -> Raised("TypeError", TypeName(obj.t) \o NotSubscriptableMsg)

\* obj[0], with Python's exceptions
GetIndex0(obj) ==
    CASE obj.t = "list" ->
            IF Len(obj.v) > 0 THEN Value(obj.v[1])
            ELSE Raised("IndexError", ListIndexMsg)
      [] obj.t = "str" ->
            IF Len(obj.v) > 0 THEN Value(JStr(<<obj.v[1]>>))
            ELSE Raised("IndexError", StrIndexMsg)
      [] obj.t = "dict" -> Raised("KeyError", <<"0">>)
      [] OTHER -> Raised("TypeError", TypeName(obj.t) \o NotSubscriptableMsg)

\* response["choices"][0]["message"]["content"], evaluated left to right
ExtractContent(resp) ==
    LET r1 == GetKey(resp, "choices")
        r2 == GetIndex0(r1.v)
        r3 == GetKey(r2.v, "message")
        r4 == GetKey(r3.v, "content")
    IN  IF r1.exc # "none" THEN r1
        ELSE IF r2.exc # "none" THEN r2
        ELSE IF r3.exc # "none" THEN r3
        ELSE r4

\* -------------------------------------------------------------- environment

\* The script that is run.
Adapters == {"text", "image", "speech"}

\* os.getenv('HUGGINGFACE_API_KEY'): None when unset, else the string.
EnvUnset == [set |-> FALSE, v |-> <<>>]
EnvStr(s) == [set |-> TRUE, v |-> s]
EnvKeys == {EnvUnset, EnvStr(<<>>), EnvStr(<<"h","f","_","x">>)}

\* Mutant of Truthy: the test written as `api_key is None`, which lets the
\* empty string through.
Truthy_NoneOnly(k) == k.set

\* `if not api_key` / `if hf_token`: None and "" are both falsy.
Truthy(k) == k.set /\ Len(k.v) > 0

Words == {<<"H","i">>, <<"a"," ","f","o","x">>}
Argvs == UNION {[1..n -> Words] : n \in 0..MaxArgs}
StdinLines == {<<>>, <<"E","x","p","l","a","i","n"," ","i","t">>}

ByteVals == {47, 77, 255}
Bodies == UNION {[1..n -> ByteVals] : n \in 0..MaxBodyLen}

Statuses == {200, 201, 304, 404, 500, 503}
TransportErrors == {ConnErrMsg, TimeoutMsg}

\* Exception texts of the two synthesis tiers: empty, short, one that mentions
\* the model, and generated ones around the two truncation limits.
ErrLens == {FailErrLimit, FailErrLimit + 1, NoteErrLimit, MaxErrLen}
HfErrors == {<<>>, RateLimitMsg, KokoroUnavailableMsg} \cup {LongErr(n) : n \in ErrLens}
GttsErrors == {<<>>, RateLimitMsg} \cup {LongErr(n) : n \in ErrLens}

\* Documents the chat endpoint may answer with.
Assistant(content) == JDict([role |-> JStr(<<"a">>), content |-> content])
Choice(message) == JDict([index |-> JInt(0), message |-> message])
Completion(choices) == JDict([id |-> JStr(<<"x">>), choices |-> choices])
TextDocs ==
    { Completion(JList(<<Choice(Assistant(JStr(<<"O","k">>)))>>)),
      Completion(JList(<<Choice(Assistant(JNone))>>)),
      Completion(JList(<<Choice(Assistant(JStr(<<"O","k">>))),
                         Choice(Assistant(JStr(<<"N","o">>)))>>)),
      JDict([error |-> JStr(<<"b","a","d">>)]),
      Completion(JList(<<>>)),
      Completion(JList(<<JDict([index |-> JInt(0)])>>)),
      Completion(JList(<<Choice(JDict([role |-> JStr(<<"a">>)]))>>)),
      Completion(JNone),
      Completion(JInt(3)),
      Completion(JDict(<<>>)),
      Completion(JStr(<<>>)),
      Completion(JStr(<<"a","b">>)),
      Completion(JList(<<JStr(<<"a","b">>)>>)),
      Completion(JList(<<JNone>>)),
      Completion(JList(<<Choice(JList(<<>>))>>)),
      Completion(JList(<<Choice(JNone)>>)),
      JList(<<>>),
      JStr(<<"O","k">>),
      JNone }

\* The body of a chat reply: a JSON document, or bytes that are not JSON.
JsonBody(doc) == [is_json |-> TRUE, doc |-> doc]
NotJsonBody == [is_json |-> FALSE, doc |-> JNone]
TextBodies == {NotJsonBody} \cup {JsonBody(d) : d \in TextDocs}

\* What an outbound call comes back with: a raised exception, or a reply.
CallRaised(msg) == [raised |-> TRUE, msg |-> msg, status_code |-> 0, body |-> <<>>]
Reply(status, body) == [raised |-> FALSE, msg |-> <<>>, status_code |-> status, body |-> body]

TextReplies ==
    {CallRaised(m) : m \in TransportErrors}
      \cup {Reply(s, b) : s \in Statuses, b \in TextBodies}
ImageReplies ==
    {CallRaised(m) : m \in TransportErrors}
      \cup {Reply(s, b) : s \in Statuses, b \in Bodies}

\* An entry of the log of outbound calls: the service, what was sent, and
\* what came back.
Call(to, sent, result) == [to |-> to, sent |-> sent, result |-> result]

\* ------------------------------------------------------------------- state

VARIABLES
    adapter,      \* which script runs
    api_key,      \* the environment's HUGGINGFACE_API_KEY
    argv,         \* sys.argv[1:]
    pc,           \* position in the script
    user_input,   \* user_input / user_prompt / user_text
    calls,        \* outbound calls made so far, in order
    response,     \* the script's variable `response`
    hf_error,     \* voice.py: the exception bound by `except Exception as hf_error`
    gtts_error,   \* voice.py: the exception bound by `except Exception as gtts_error`
    stdout,       \* the envelopes printed so far
    exit_code,    \* the process's exit status
    traceback     \* an exception left the script uncaught

vars ==
    <<adapter, api_key, argv, pc, user_input, calls, response, hf_error, gtts_error,
      stdout, exit_code, traceback>>

Unbound == J("unbound", <<>>)
NoExc == [raised |-> FALSE, msg |-> <<>>]
Exc(msg) == [raised |-> TRUE, msg |-> msg]

Init ==
    /\ adapter \in Adapters
    /\ api_key \in EnvKeys
    /\ argv \in Argvs
    /\ pc = IF adapter = "speech" THEN "get_input" ELSE "check_key"
    /\ user_input = <<>>
    /\ calls = <<>>
    /\ response = Unbound
    /\ hf_error = NoExc
    /\ gtts_error = NoExc
    /\ stdout = <<>>
    /\ exit_code = 0
    /\ traceback = FALSE

\* --------------------------------------------------------------- envelopes

\* {"success": False, "error": ...}
Failure(err) == [success |-> FALSE, error |-> err]

\* Mutant of TextSuccess: the templated prompt echoed instead of the input.
TextSuccess_Templated(content, prompt) ==
    [success |-> TRUE, content |-> content, prompt |-> prompt_template_head \o prompt]

\* text.py:73-77
TextSuccess(content, prompt) ==
    [success |-> TRUE, content |-> content, prompt |-> prompt]

\* text.py:81-85
ExtractFailure(msg, resp) ==
    [success |-> FALSE, error |-> ExtractErrorPrefix \o msg, response |-> resp]

\* image.py:35-41
ImageSuccess(content, prompt) ==
    [success |-> TRUE, image_data |-> DataUriPng \o b64encode(content), prompt |-> prompt]

\* image.py:57-60
ApiError(status, text) ==
    Failure(ApiErrorPrefix \o DecStr(status) \o ColonSpace \o text)

\* voice.py:31-38
PrimarySuccess(audio, text) ==
    [success |-> TRUE, audio_data |-> DataUriWav \o b64encode(audio), text |-> text,
     note |-> KokoroNote]

\* Mutant of FallbackNote: the primary error embedded whole.
FallbackNote_Untruncated(primaryMsg) ==
    GoogleNoteHead \o primaryMsg \o CloseParen

\* voice.py:64
FallbackNote(primaryMsg) ==
    GoogleNoteHead \o Take(primaryMsg, NoteErrLimit) \o CloseParen

\* voice.py:58-65
FallbackSuccess(audio, text, primaryMsg) ==
    [success |-> TRUE, audio_data |-> DataUriMpeg \o b64encode(audio), text |-> text,
     note |-> FallbackNote(primaryMsg)]

\* Mutant of BothFailed: the two errors concatenated whole.
BothFailed_Untruncated(primaryMsg, fallbackMsg) ==
    Failure(BothFailedHead \o primaryMsg \o BothFailedMid \o fallbackMsg)

\* voice.py:70-73
BothFailed(primaryMsg, fallbackMsg) ==
    Failure(BothFailedHead \o Take(primaryMsg, FailErrLimit)
            \o BothFailedMid \o Take(fallbackMsg, FailErrLimit))

\* ----------------------------------------------------------------- actions

\* text.py:46-49, image.py:22-25, voice.py:11-14: the arguments joined by
\* single spaces, or one line read from stdin when there are none.  input()
\* stands at module level in no try block: at end of file its EOFError leaves
\* the script uncaught (traceback, exit status 1).
ReadInput(next) ==
    /\ \/ /\ Len(argv) > 0
          /\ user_input' = Join(argv)
          /\ pc' = next
          /\ UNCHANGED <<exit_code, traceback>>
       \/ /\ Len(argv) = 0
          /\ \E line \in StdinLines : user_input' = line
          /\ pc' = next
          /\ UNCHANGED <<exit_code, traceback>>
       \/ /\ Len(argv) = 0
          /\ traceback' = TRUE
          /\ exit_code' = 1
          /\ pc' = "exited"
          /\ UNCHANGED user_input
    /\ UNCHANGED <<adapter, api_key, argv, calls, response, hf_error, gtts_error, stdout>>

\* The credential check of text.py (message of line 15) and image.py (line 16):
\* without a credential, one Failure envelope and exit(1).
CheckKey(missingMsg) ==
    /\ pc = "check_key"
    /\ IF ~Truthy(api_key)
       THEN /\ stdout' = Append(stdout, Failure(missingMsg))
            /\ exit_code' = 1
            /\ pc' = "exited"
       ELSE /\ pc' = "get_input"
            /\ UNCHANGED <<stdout, exit_code>>
    /\ UNCHANGED <<adapter, api_key, argv, user_input, calls, response, hf_error,
                   gtts_error, traceback>>

\* ---- text.py

TextCheckKey == adapter = "text" /\ CheckKey(TextKeyMissingMsg)

TextGetInput == adapter = "text" /\ pc = "get_input" /\ ReadInput("request")

\* text.py:52-54
prompt_template(input) == prompt_template_head \o input

\* text.py:57-66: the payload handed to query
ChatPayload(input) == [role |-> "user", content |-> prompt_template(input)]

\* Mutant of RaisesForStatus: only server errors raise.
RaisesForStatus_ServerOnly(s) == s >= 500 /\ s < 600

\* response.raise_for_status(): raises HTTPError for 4xx and 5xx, nothing else
RaisesForStatus(s) == s >= 400 /\ s < 600

HttpErrorMsg(s) == DecStr(s) \o (IF s < 500 THEN ClientErrorMsg ELSE ServerErrorMsg)

\* The try block of query (text.py:26-29) on a reply: the parsed document, or
\* the exception raised.  A body that is not JSON makes response.json() raise
\* its decode error, which is a RequestException in requests >= 2.27 and a
\* plain ValueError before (decodeIsRequestException).
query(reply, decodeIsRequestException) ==
    IF reply.raised THEN Raised("RequestException", reply.msg)
    ELSE IF RaisesForStatus(reply.status_code)
        THEN Raised("RequestException", HttpErrorMsg(reply.status_code))
    ELSE IF ~reply.body.is_json
        THEN Raised(IF decodeIsRequestException THEN "RequestException" ELSE "ValueError",
                    JsonDecodeMsg)
    ELSE Value(reply.body.doc)

\* text.py:30-43: the envelope of query's two handlers
QueryFailure(r) ==
    Failure((IF r.exc = "RequestException" THEN RequestFailedPrefix
             ELSE UnexpectedErrorPrefix) \o r.msg)

\* text.py:57 with query (25-43): one POST; on an exception query prints a
\* Failure envelope and calls sys.exit(1), whose SystemExit is no Exception
\* and so passes the handler of line 88.
TextQuery ==
    /\ adapter = "text" /\ pc = "request"
    /\ \E reply \in TextReplies, decodeIsRequestException \in BOOLEAN :
          LET r == query(reply, decodeIsRequestException)
          IN  /\ calls' = Append(calls, Call("chat", ChatPayload(user_input), reply))
              /\ IF r.exc = "none"
                 THEN /\ response' = r.v
                      /\ pc' = "extract"
                      /\ UNCHANGED <<stdout, exit_code>>
                 ELSE /\ stdout' = Append(stdout, QueryFailure(r))
                      /\ exit_code' = 1
                      /\ pc' = "exited"
                      /\ UNCHANGED response
    /\ UNCHANGED <<adapter, api_key, argv, user_input, hf_error, gtts_error, traceback>>

\* text.py:69-94: extraction; KeyError is handled inside (exit status 0), any
\* other exception by the handler of line 88 (exit status 1).
ExtractEnvelope(resp, input) ==
    LET r == ExtractContent(resp)
    IN  IF r.exc = "none" THEN TextSuccess(r.v, input)
        ELSE IF r.exc = "KeyError" THEN ExtractFailure(r.msg, resp)
        ELSE Failure(ScriptErrorPrefix \o r.msg)

ExtractExit(resp) ==
    IF ExtractContent(resp).exc \in {"none", "KeyError"} THEN 0 ELSE 1

TextExtract ==
    /\ adapter = "text" /\ pc = "extract"
    /\ stdout' = Append(stdout, ExtractEnvelope(response, user_input))
    /\ exit_code' = ExtractExit(response)
    /\ pc' = "exited"
    /\ UNCHANGED <<adapter, api_key, argv, user_input, calls, response, hf_error,
                   gtts_error, traceback>>

\* ---- image.py

ImageCheckKey == adapter = "image" /\ CheckKey(ImageKeyMissingMsg)

ImageGetInput == adapter = "image" /\ pc = "get_input" /\ ReadInput("request")

\* image.py:26-28
ImagePayload(input) == [inputs |-> input]

\* image.py:30: requests.post at module level, in no try block: an exception
\* it raises leaves the script uncaught (traceback, exit status 1).
ImagePost ==
    /\ adapter = "image" /\ pc = "request"
    /\ \E reply \in ImageReplies :
          /\ calls' = Append(calls, Call("image", ImagePayload(user_input), reply))
          /\ IF reply.raised
             THEN /\ traceback' = TRUE
                  /\ exit_code' = 1
                  /\ pc' = "exited"
                  /\ UNCHANGED response
             ELSE /\ response' = J("Response", [status_code |-> reply.status_code,
                                                content |-> reply.body])
                  /\ pc' = "dispatch"
                  /\ UNCHANGED <<traceback, exit_code>>
    /\ UNCHANGED <<adapter, api_key, argv, user_input, hf_error, gtts_error, stdout>>

\* response.text: the body decoded, undecodable bytes replaced
ByteChar(b) ==
    CASE b = 47 -> "/"
      [] b = 77 -> "M"
      [] OTHER -> "U+FFFD"

ResponseText(content) == [i \in 1..Len(content) |-> ByteChar(content[i])]

\* Mutant of ImageEnvelope: no branch for 503, which falls to the generic one.
ImageEnvelope_No503(resp, input) ==
    IF resp.status_code = StatusOk THEN ImageSuccess(resp.content, input)
    ELSE ApiError(resp.status_code, ResponseText(resp.content))

\* image.py:32-61: the envelope for a status.  b64encode of bytes and decode
\* of its ASCII output cannot raise, so the handler of lines 44-49 is never
\* entered.
ImageEnvelope(resp, input) ==
    IF resp.status_code = StatusOk THEN ImageSuccess(resp.content, input)
    ELSE IF resp.status_code = StatusLoading THEN Failure(ModelLoadingMsg)
    ELSE ApiError(resp.status_code, ResponseText(resp.content))

ImageDispatch ==
    /\ adapter = "image" /\ pc = "dispatch"
    /\ stdout' = Append(stdout, ImageEnvelope(response.v, user_input))
    /\ pc' = "exited"
    /\ UNCHANGED <<adapter, api_key, argv, user_input, calls, response, hf_error,
                   gtts_error, exit_code, traceback>>

\* ---- voice.py

VoiceGetInput == adapter = "speech" /\ pc = "get_input" /\ ReadInput("primary")

\* Mutant of PrimaryRaises: the primary error printed as a Failure envelope
\* before the fallback is tried.
PrimaryRaises_Surfaced(msg) ==
    /\ hf_error' = Exc(msg)
    /\ pc' = "fallback"
    /\ stdout' = Append(stdout, Failure(msg))
    /\ UNCHANGED exit_code

\* voice.py:43: the primary try block raised; the handler binds hf_error
PrimaryRaises(msg) ==
    /\ hf_error' = Exc(msg)
    /\ pc' = "fallback"
    /\ UNCHANGED <<stdout, exit_code>>

\* voice.py:16-43: the primary tier
VoicePrimary ==
    /\ adapter = "speech" /\ pc = "primary"
    /\ \/ \* line 18: huggingface_hub cannot be imported
          /\ PrimaryRaises(NoHfHubMsg)
          /\ UNCHANGED calls
       \/ \* lines 40-41: no credential
          /\ ~Truthy(api_key)
          /\ PrimaryRaises(VoiceKeyMissingMsg)
          /\ UNCHANGED calls
       \/ \* lines 22-28: text_to_speech raises
          /\ Truthy(api_key)
          /\ \E msg \in HfErrors :
                /\ calls' = Append(calls, Call("kokoro", user_input, CallRaised(msg)))
                /\ PrimaryRaises(msg)
       \/ \* lines 22-39: text_to_speech returns audio
          /\ Truthy(api_key)
          /\ \E audio \in Bodies :
                /\ calls' = Append(calls, Call("kokoro", user_input,
                                               Reply(StatusOk, audio)))
                /\ stdout' = Append(stdout, PrimarySuccess(audio, user_input))
          /\ pc' = "exited"
          /\ UNCHANGED <<hf_error, exit_code>>
    /\ UNCHANGED <<adapter, api_key, argv, user_input, response, gtts_error, traceback>>

\* voice.py:68-74: the fallback raised; one Failure envelope for both tiers
FallbackRaises(msg) ==
    /\ gtts_error' = Exc(msg)
    /\ stdout' = Append(stdout, BothFailed(hf_error.msg, msg))

\* voice.py:43-74: the fallback tier, entered only from the primary's handler
VoiceFallback ==
    /\ adapter = "speech" /\ pc = "fallback"
    /\ \/ \* line 46: gtts cannot be imported
          /\ FallbackRaises(NoGttsMsg)
          /\ UNCHANGED calls
       \/ \* lines 50-54: gTTS raises
          \E msg \in GttsErrors :
             /\ calls' = Append(calls, Call("gtts", user_input, CallRaised(msg)))
             /\ FallbackRaises(msg)
       \/ \* lines 50-66: gTTS writes the audio
          \E audio \in Bodies :
             /\ calls' = Append(calls, Call("gtts", user_input, Reply(StatusOk, audio)))
             /\ stdout' = Append(stdout, FallbackSuccess(audio, user_input, hf_error.msg))
             /\ UNCHANGED gtts_error
    /\ pc' = "exited"
    /\ UNCHANGED <<adapter, api_key, argv, user_input, response, hf_error, exit_code,
                   traceback>>

Next ==
    \/ TextCheckKey
    \/ TextGetInput
    \/ TextQuery
    \/ TextExtract
    \/ ImageCheckKey
    \/ ImageGetInput
    \/ ImagePost
    \/ ImageDispatch
    \/ VoiceGetInput
    \/ VoicePrimary
    \/ VoiceFallback

Spec == Init /\ [][Next]_vars

\* ------------------------------------------------------ notions for claims

Exited == pc = "exited"

\* The credential is absent: the variable is unset, or set to the empty string.
CredentialAbsent == ~api_key.set \/ api_key.v = <<>>

\* The invocation got its input: input() did not meet the end of stdin.
InputObtained == ~(traceback /\ calls = <<>>)

HasKey(e, k) == k \in DOMAIN e

Min(a, b) == IF a < b THEN a ELSE b

\* The first n characters of s, or all of s when it is shorter.
Fragment(s, n) == [i \in 1..Min(Len(s), n) |-> s[i]]

IsPrefixOf(p, s) == Len(p) <= Len(s) /\ \A i \in 1..Len(p) : p[i] = s[i]

IsDigit(c) == \E d \in 1..10 : Digits[d] = c
DigitVal(c) == (CHOOSE d \in 1..10 : Digits[d] = c) - 1

\* The number a run of decimal digits at the head of s denotes (-1: none).
RECURSIVE ReadDec(_, _)
ReadDec(s, acc) ==
    IF Len(s) > 0 /\ IsDigit(s[1])
    THEN ReadDec(Tail(s), (IF acc < 0 THEN 0 ELSE acc * 10) + DigitVal(s[1]))
    ELSE acc

B64Index(c) == (CHOOSE i \in 1..64 : B64Alphabet[i] = c) - 1
IsB64Char(c) == \E i \in 1..64 : B64Alphabet[i] = c

\* s is base64 text: groups of four alphabet characters, "=" padding only at
\* the end of the last group.
ValidBase64(s) ==
    /\ Len(s) % 4 = 0
    /\ \A i \in 1..Len(s) :
          \/ IsB64Char(s[i])
          \/ /\ s[i] = "="
             /\ i >= Len(s) - 1
             /\ \A j \in (i + 1)..Len(s) : s[j] = "="

\* The bytes that valid base64 text s encodes.
RECURSIVE B64Decode(_)
B64Decode(s) ==
    IF Len(s) < 4 THEN <<>>
    ELSE LET n1 == B64Index(s[1])
             n2 == B64Index(s[2])
         IN  IF s[3] = "=" THEN <<n1 * 4 + (n2 \div 16)>>
             ELSE IF s[4] = "="
                 THEN <<n1 * 4 + (n2 \div 16), (n2 % 16) * 16 + (B64Index(s[3]) \div 4)>>
             ELSE <<n1 * 4 + (n2 \div 16), (n2 % 16) * 16 + (B64Index(s[3]) \div 4),
                    (B64Index(s[3]) % 4) * 64 + B64Index(s[4])>>
                  \o B64Decode(SubSeq(s, 5, Len(s)))

\* s is a data URI of the given head whose payload is the base64 of bytes.
IsDataUriOf(s, head, bytes) ==
    /\ IsPrefixOf(head, s)
    /\ LET payload == SubSeq(s, Len(head) + 1, Len(s))
       IN  ValidBase64(payload) /\ B64Decode(payload) = bytes

\* The last outbound call, as the environment answered it.
LastCall == calls[Len(calls)]

\* ------------------------------------------------------------------ claims

\* C1 (as claimed): for every outcome of the credential lookup and of the
\* outbound calls, a terminated invocation of any adapter has printed exactly
\* one envelope, never zero and never two, and no exception left the script
\* uncaught.
C1_OneEnvelopePerInvocation ==
    /\ Len(stdout) <= 1
    /\ (Exited /\ InputObtained) => (Len(stdout) = 1 /\ ~traceback)

\* C2 (as claimed): in all three adapters an absent credential ends the
\* invocation (one that is not cut short by the end of stdin) before any
\* outbound call, with one Failure envelope and a non-zero exit status.
C2_AbsentCredentialIsFatal ==
    (Exited /\ CredentialAbsent /\ InputObtained) =>
        /\ calls = <<>>
        /\ Len(stdout) = 1
        /\ ~stdout[1].success
        /\ exit_code # 0

\* C2 (amended): in the text and image adapters an absent credential ends the
\* invocation before any outbound call and before the input is read, with one
\* Failure envelope and a non-zero exit status; in the speech adapter it is not
\* fatal: once the text is read, no request goes to the hosted service, the
\* fallback tier is tried, one envelope is printed and the exit status is 0.
C2_AbsentCredential ==
    CredentialAbsent =>
        IF adapter \in {"text", "image"}
        THEN /\ calls = <<>>
             /\ pc \in {"check_key", "exited"}
             /\ Exited => /\ Len(stdout) = 1
                          /\ ~stdout[1].success
                          /\ HasKey(stdout[1], "error")
                          /\ exit_code # 0
        ELSE /\ \A i \in 1..Len(calls) : calls[i].to # "kokoro"
             /\ (Exited /\ InputObtained) =>
                          /\ hf_error.raised
                          /\ Len(stdout) = 1
                          /\ exit_code = 0

C2_Witness ==
    /\ Exited /\ adapter = "image" /\ api_key = EnvStr(<<>>) /\ Len(argv) > 0
    /\ Len(stdout) = 1 /\ exit_code = 1

\* C3 (as claimed): every envelope the text adapter prints has exactly one of
\* `content` and `error`, and has `prompt` equal to the user's input, failure
\* envelopes included.
C3_PromptInEveryEnvelope ==
    adapter = "text" =>
        \A i \in 1..Len(stdout) :
            LET e == stdout[i]
            IN  /\ HasKey(e, "content") # HasKey(e, "error")
                /\ HasKey(e, "prompt")
                /\ e.prompt = user_input

\* C3 (amended): every envelope the text adapter prints has exactly one of
\* `content` (success) and `error` (failure); a Success envelope has `prompt`
\* equal to the user's input, which is the request's content without the
\* instruction template; a Failure envelope has no `prompt`.
C3_PromptInSuccessOnly ==
    adapter = "text" =>
        \A i \in 1..Len(stdout) :
            LET e == stdout[i]
            IN  /\ HasKey(e, "content") # HasKey(e, "error")
                /\ e.success <=> HasKey(e, "content")
                /\ IF e.success
                   THEN /\ HasKey(e, "prompt")
                        /\ e.prompt = user_input
                        /\ Len(argv) > 0 => Len(e.prompt) >= Len(argv[1])
                        /\ Len(calls) = 1
                        /\ calls[1].sent.content = prompt_template_head \o e.prompt
                   ELSE ~HasKey(e, "prompt")

C3_Witness ==
    /\ Exited /\ adapter = "text" /\ Len(argv) = 2
    /\ Len(stdout) = 1 /\ stdout[1].success
    /\ stdout[1].content = JStr(<<"O","k">>)
    /\ stdout[1].prompt = argv[1] \o <<" ">> \o argv[2]

\* C4: the image adapter makes one POST and never a second; status 200 gives
\* a Success envelope whose image_data is data:image/png;base64, followed by
\* the base64 of the body and whose prompt is the input; 503 gives the
\* model-is-loading Failure; any other status gives a Failure whose error
\* carries the status code in decimal.
C4_ImageStatusMapping ==
    adapter = "image" =>
        /\ Len(calls) <= 1
        /\ Len(stdout) <= 1
        /\ (Exited /\ Len(calls) = 1 /\ ~calls[1].result.raised) =>
              /\ Len(stdout) = 1
              /\ exit_code = 0
              /\ LET e == stdout[1]
                     status == calls[1].result.status_code
                     body == calls[1].result.body
                 IN  CASE status = 200 ->
                            /\ e.success
                            /\ ~HasKey(e, "error")
                            /\ IsDataUriOf(e.image_data, DataUriPng, body)
                            /\ e.prompt = user_input
                       [] status = 503 ->
                            e = [success |-> FALSE, error |-> ModelLoadingMsg]
                       [] OTHER ->
                            /\ ~e.success
                            /\ IsPrefixOf(ApiErrorPrefix, e.error)
                            /\ ReadDec(SubSeq(e.error, Len(ApiErrorPrefix) + 1,
                                              Len(e.error)), -1) = status

C4_Witness ==
    /\ Exited /\ adapter = "image"
    /\ Len(calls) = 1 /\ ~calls[1].result.raised
    /\ calls[1].result.status_code = 200
    /\ Len(calls[1].result.body) = MaxBodyLen
    /\ Len(stdout) = 1 /\ stdout[1].success
    /\ Len(stdout[1].image_data) = Len(DataUriPng) + 4 * ((MaxBodyLen + 2) \div 3)

\* The fallback tier produced audio.
FallbackSucceeded ==
    /\ Len(calls) > 0
    /\ LastCall.to = "gtts"
    /\ ~LastCall.result.raised

TextRequestFailed == adapter = "text" /\ Len(calls) = 1 /\ response.t = "unbound"

\* C6 (as claimed): for every outcome of the credential lookup and of the
\* outbound calls, the exit status is non-zero only when the credential was
\* found missing before any request, or when the text adapter's request
\* raised; every other path exits 0.
C6_ExitCodes ==
    (Exited /\ InputObtained /\ exit_code # 0) =>
        \/ CredentialAbsent /\ calls = <<>>
        \/ TextRequestFailed

\* The fallback tier has been entered.
FallbackAttempted ==
    \/ gtts_error.raised
    \/ \E i \in 1..Len(calls) : calls[i].to = "gtts"

\* C7, in every state of the speech adapter: at most two synthesis calls, one
\* per tier, the primary first; the fallback is entered only with the primary
\* failed and nothing printed by it; a Failure envelope is printed only with
\* both tiers failed.
C7_FallbackState ==
    adapter = "speech" =>
        /\ Len(calls) <= 2
        /\ Len(stdout) <= 1
        /\ Len(calls) = 2 =>
              calls[1].to = "kokoro" /\ calls[1].result.raised /\ calls[2].to = "gtts"
        /\ FallbackAttempted =>
              /\ hf_error.raised
              /\ \A i \in 1..Len(calls) : calls[i].to = "kokoro" => calls[i].result.raised
              /\ \A i \in 1..Len(stdout) :
                    stdout[i].success => IsPrefixOf(DataUriMpeg, stdout[i].audio_data)
        /\ \A i \in 1..Len(stdout) :
              ~stdout[i].success =>
                  /\ hf_error.raised
                  /\ gtts_error.raised
                  /\ \A j \in 1..Len(calls) : calls[j].result.raised

\* C7, in every step of the speech adapter: a step that enters the fallback
\* tier starts from a state in which the primary tier has already failed and
\* nothing has been printed.
C7_FallbackStep ==
    (adapter = "speech" /\ ~FallbackAttempted /\ FallbackAttempted') =>
        /\ hf_error.raised
        /\ stdout = <<>>
        /\ \A i \in 1..Len(calls) : calls[i].result.raised

\* C7: the fallback synthesis is attempted only after the primary path has
\* failed, never before it and never after a primary Success; an invocation
\* makes at most two synthesis attempts; a Failure envelope is printed only
\* when both attempts have failed.
C7_FallbackOnlyAfterPrimaryFails == []C7_FallbackState /\ [][C7_FallbackStep]_vars

C7_Witness ==
    /\ Exited /\ adapter = "speech"
    /\ Len(calls) = 2
    /\ calls[1].to = "kokoro" /\ calls[1].result.raised
    /\ calls[2].to = "gtts" /\ calls[2].result.raised
    /\ Len(stdout) = 1 /\ ~stdout[1].success

\* A document with the structure choices[0].message.content.
HasContentPath(doc) ==
    /\ doc.t = "dict" /\ "choices" \in DOMAIN doc.v
    /\ doc.v.choices.t = "list" /\ Len(doc.v.choices.v) > 0
    /\ doc.v.choices.v[1].t = "dict" /\ "message" \in DOMAIN doc.v.choices.v[1].v
    /\ doc.v.choices.v[1].v.message.t = "dict"
    /\ "content" \in DOMAIN doc.v.choices.v[1].v.message.v

\* C8 (as claimed): whenever the text adapter's request succeeds and the
\* document lacks choices[0].message.content in any way, the envelope is a
\* Failure that reports the extraction error and carries the raw document in
\* `response`.
C8_MalformedResponseReported ==
    (adapter = "text" /\ Exited /\ response.t # "unbound" /\ ~HasContentPath(response)) =>
        /\ Len(stdout) = 1
        /\ ~stdout[1].success
        /\ IsPrefixOf(ExtractErrorPrefix, stdout[1].error)
        /\ HasKey(stdout[1], "response")
        /\ stdout[1].response = response

\* The status of the text adapter's reply is one raise_for_status raises for.
IsErrorStatus(s) == s \in 400..599

\* The envelope is one of query's two Failure envelopes.
IsQueryFailure(e) ==
    /\ ~e.success
    /\ IsPrefixOf(RequestFailedPrefix, e.error) \/ IsPrefixOf(UnexpectedErrorPrefix, e.error)

AudioGeneratedUsing ==
    <<"A","u","d","i","o"," ","g","e","n","e","r","a","t","e","d"," ","u","s","i","n","g",
      " ">>

\* The note names the engine as the producer of the audio.
NamesEngine(note, engine) == IsPrefixOf(AudioGeneratedUsing \o engine, note)

\* C10: every Success envelope of the speech adapter identifies its tier:
\* audio_data is a data:audio/wav;base64, URI of the returned audio and the
\* note names Kokoro-82M exactly when the primary tier produced it,
\* audio_data is a data:audio/mpeg;base64, URI and the note names Google TTS
\* exactly when the fallback did; the primary-error text embedded in a
\* fallback note is the first 100 characters of the primary error at most;
\* and `text` is the input.
C10_SuccessIdentifiesTier ==
    adapter = "speech" =>
        \A i \in 1..Len(stdout) :
            LET e == stdout[i]
            IN  e.success =>
                  /\ Len(calls) > 0
                  /\ ~LastCall.result.raised
                  /\ e.text = user_input
                  /\ LastCall.sent = user_input
                  /\ (LastCall.to = "kokoro") <=>
                        (IsPrefixOf(DataUriWav, e.audio_data) /\ NamesEngine(e.note, Kokoro82M))
                  /\ (LastCall.to = "gtts") <=>
                        (IsPrefixOf(DataUriMpeg, e.audio_data) /\ NamesEngine(e.note, GoogleTTS))
                  /\ IsDataUriOf(e.audio_data,
                                 IF LastCall.to = "kokoro" THEN DataUriWav ELSE DataUriMpeg,
                                 LastCall.result.body)
                  /\ LastCall.to = "gtts" =>
                        LET embedded == SubSeq(e.note, Len(GoogleNoteHead) + 1, Len(e.note) - 1)
                        IN  /\ IsPrefixOf(GoogleNoteHead, e.note)
                            /\ e.note[Len(e.note)] = ")"
                            /\ Len(embedded) <= NoteErrLimit
                            /\ Len(embedded) = Min(Len(hf_error.msg), NoteErrLimit)
                            /\ IsPrefixOf(embedded, hf_error.msg)

C10_Witness ==
    /\ Exited /\ adapter = "speech"
    /\ Len(stdout) = 1 /\ stdout[1].success
    /\ LastCall.to = "gtts"
    /\ Len(hf_error.msg) > NoteErrLimit
    /\ Len(stdout[1].note) = Len(GoogleNoteHead) + NoteErrLimit + 1

====
